---- MODULE Spec2Model ----
(***************************************************************************)
(* CloudPRNT job broker (Serve.js): an in-memory job queue filled by the   *)
(* kiosk (POST /api/order) and drained by the printer through the          *)
(* poll / fetch / acknowledge protocol (POST, GET, DELETE /cloudprnt).     *)
(*                                                                         *)
(* Every route handler is synchronous JavaScript (no await, no callback),  *)
(* so Node's run-to-completion event loop executes each handler as one     *)
(* atomic step; concurrent requests are handled in some interleaving of    *)
(* whole handlers.  Each action below is one whole handler.                *)
(***************************************************************************)
EXTENDS Integers, Sequences, FiniteSets, TLC

\* ---------------------------------------------------------------- bounds
MaxJobs == 2      \* successful submits explored

\* ------------------------------------------------------ program constants
FirstJobId == 1
PollInterval == 5

\* ------------------------------------------------------- JavaScript values
\* A value arriving in a request (a JSON body field or a parsed query
\* parameter) is a tagged record: t is its typeof-like tag, v its rendering.
Undefined == [t |-> "undefined", v |-> ""]
Str(s) == [t |-> "string", v |-> s]
Num(s) == [t |-> "number", v |-> s]
Arr(s) == [t |-> "array", v |-> s]

\* JavaScript truthiness (the operand of `!x`).
Truthy(x) ==
    CASE x.t = "undefined" -> FALSE
      [] x.t = "string" -> x.v # ""
      [] x.t = "number" -> x.v # "0"
      [] OTHER -> TRUE

\* typeof x === "string"
IsString(x) == x.t = "string"

\* x === s for a request value x and a string s held by the program.
StrictEq(x, s) == x.t = "string" /\ x.v = s

\* ------------------------------------------------------------------ state
VARIABLES
    nextJobId,   \* let nextJobId = 1
    jobs,        \* const jobs = []: sequence of { id, token, content, status }
    req,         \* the request the last handler run received
    res,         \* the response the last handler run sent
    dispatched,  \* history: the jobToken of every jobReady: 1 response, in order
    issued       \* history: { id, token, text } of every 200 submit response, in order

vars == <<nextJobId, jobs, req, res, dispatched, issued>>

\* Date.now(): the values the wall clock shows at a submit.  Two submits may
\* fall in the same millisecond, and the clock may be set back between them.
Clock == {1, 2}

\* `job-${id}-${Date.now()}`
MakeTokenNoId(id, now) == "job-" \o ToString(now)
makeToken(id, now) == "job-" \o ToString(id) \o "-" \o ToString(now)

\* ---------------------------------------------------------------- inputs
Texts == {Str("Order #1"), Str("Order #2"), Str(""), Undefined, Num("7")}
PrinterStatuses == {"", "paper-out"}
StatusParams == {Str("0"), Str("1"), Undefined, Arr("0")}

TokensOfJobs(js) == {js[i].token : i \in 1..Len(js)}
\* job_token values a request may carry: absent, empty, a token no job has,
\* and every token handed out so far.
TokenParams ==
    {Undefined, Str(""), Str("job-0-0")} \cup {Str(t) : t \in TokensOfJobs(jobs)}

\* ------------------------------------------------------- request / response
NoRes == [op |-> "none", code |-> 0, body |-> "", ok |-> FALSE, id |-> 0,
          token |-> "", jobReady |-> -1, mediaTypes |-> <<>>,
          pollInterval |-> 0, contentType |-> "", listing |-> <<>>]
NoReq == [op |-> "none", text |-> Undefined, status |-> Undefined,
          job_token |-> Undefined, body |-> ""]

\* Array.prototype.find: of the indices whose element satisfies the
\* predicate, the first one; 0 (no job) if there is none.
LastMatch(matches) ==
    IF matches = {} THEN 0 ELSE CHOOSE i \in matches : \A k \in matches : k <= i
FirstMatch(matches) ==
    IF matches = {} THEN 0 ELSE CHOOSE i \in matches : \A k \in matches : i <= k

Init ==
    /\ nextJobId = FirstJobId
    /\ jobs = <<>>
    /\ req = NoReq
    /\ res = NoRes
    /\ dispatched = <<>>
    /\ issued = <<>>

\* ------------------------------------------------- POST /api/order (submit)
\* if (!text || typeof text !== "string")
InvalidTextNoTypeof(text) == ~Truthy(text)
InvalidText(text) == ~Truthy(text) \/ ~IsString(text)

PostApiOrder ==
    \E text \in Texts, now \in Clock :
        /\ req' = [NoReq EXCEPT !.op = "submit", !.text = text]
        /\ IF InvalidText(text)
           THEN /\ res' = [NoRes EXCEPT !.op = "submit", !.code = 400,
                                        !.body = "Missing 'text' field"]
                /\ UNCHANGED <<nextJobId, jobs, dispatched, issued>>
           ELSE /\ Len(jobs) < MaxJobs
                /\ LET id == nextJobId
                       token == makeToken(id, now)
                   IN /\ nextJobId' = nextJobId + 1
                      /\ jobs' = Append(jobs, [id |-> id, token |-> token,
                                               content |-> text.v,
                                               status |-> "pending"])
                      /\ res' = [NoRes EXCEPT !.op = "submit", !.code = 200,
                                              !.ok = TRUE, !.id = id,
                                              !.token = token]
                      /\ issued' = Append(issued, [id |-> id, token |-> token,
                                                   text |-> text.v])
                /\ UNCHANGED dispatched

\* --------------------------------------------- GET /api/debug/jobs (debug)
GetDebugJobs ==
    /\ req' = [NoReq EXCEPT !.op = "debug"]
    /\ res' = [NoRes EXCEPT !.op = "debug", !.code = 200, !.listing = jobs]
    /\ UNCHANGED <<nextJobId, jobs, dispatched, issued>>

\* --------------------------------------------------- POST /cloudprnt (poll)
\* (as if failed jobs were offered again)
IsPendingOrError(j) == j.status \in {"pending", "error"}
IsPending(j) == j.status = "pending"

\* job.status = "printing"
MarkPrintingNot(js, i) == js
\* (as if every pending job were marked, not only the one found)
MarkPrintingAll(js, i) ==
    [k \in 1..Len(js) |->
        IF js[k].status = "pending" THEN [js[k] EXCEPT !.status = "printing"]
        ELSE js[k]]
\* (as if the job were replaced by a rebuilt object that drops the content)
MarkPrintingRebuilt(js, i) ==
    [js EXCEPT ![i] = [id |-> js[i].id, token |-> js[i].token, content |-> "",
                       status |-> "printing"]]
MarkPrinting(js, i) == [js EXCEPT ![i].status = "printing"]

\* jobs.find(j => j.status === "pending")
\* (as if only the newest job were looked at)
FindPendingNewestOnly(js) ==
    IF Len(js) > 0 /\ IsPending(js[Len(js)]) THEN Len(js) ELSE 0
FindPendingLast(js) == LastMatch({i \in 1..Len(js) : IsPending(js[i])})
FindPending(js) == FirstMatch({i \in 1..Len(js) : IsPending(js[i])})

\* The handler body from jobs.find on: the store it leaves and the response
\* it sends.
PollDispatch(js) ==
    LET i == FindPending(js)
    IN IF i = 0
       THEN [jobs |-> js,
             res |-> [NoRes EXCEPT !.op = "poll", !.code = 200, !.jobReady = 0,
                                   !.mediaTypes = <<"text/plain">>]]
       ELSE [jobs |-> MarkPrinting(js, i),
             res |-> [NoRes EXCEPT !.op = "poll", !.code = 200, !.jobReady = 1,
                                   !.token = js[i].token,
                                   !.mediaTypes = <<"text/plain">>,
                                   !.pollInterval = PollInterval]]

\* The whole handler as a function of the store and the request body:
\* printerStatus is read and logged (lines 76-77) and not used again.
\* (as if a printer reporting a condition were given no job)
PollOutcomeHonoursStatus(js, printerStatus) ==
    IF printerStatus = "" THEN PollDispatch(js)
    ELSE [jobs |-> js,
          res |-> [NoRes EXCEPT !.op = "poll", !.code = 200, !.jobReady = 0,
                                !.mediaTypes = <<"text/plain">>]]
PollOutcome(js, printerStatus) == PollDispatch(js)

PostCloudprnt ==
    \E printerStatus \in PrinterStatuses :
        /\ req' = [NoReq EXCEPT !.op = "poll", !.body = printerStatus]
        /\ LET out == PollOutcome(jobs, printerStatus)
           IN /\ jobs' = out.jobs
              /\ res' = out.res
              /\ dispatched' = IF out.res.jobReady = 1
                               THEN Append(dispatched, out.res.token)
                               ELSE dispatched
        /\ UNCHANGED <<nextJobId, issued>>

\* --------------------------------------------------- GET /cloudprnt (fetch)
\* if (!token) return res.status(400).send("Missing job_token")
MissingTokenNever(token) == FALSE
MissingToken(token) == ~Truthy(token)

\* jobs.find(j => j.token === token)
\* (as if the comparison were written !==)
FindByTokenNegated(js, token) ==
    FirstMatch({i \in 1..Len(js) : ~StrictEq(token, js[i].token)})
FindByToken(js, token) ==
    FirstMatch({i \in 1..Len(js) : StrictEq(token, js[i].token)})

GetCloudprnt ==
    \E token \in TokenParams :
        /\ req' = [NoReq EXCEPT !.op = "fetch", !.job_token = token]
        /\ IF MissingToken(token)
           THEN res' = [NoRes EXCEPT !.op = "fetch", !.code = 400,
                                     !.body = "Missing job_token"]
           ELSE LET i == FindByToken(jobs, token)
                IN IF i = 0
                   THEN res' = [NoRes EXCEPT !.op = "fetch", !.code = 404,
                                             !.body = "Job not found"]
                   ELSE res' = [NoRes EXCEPT !.op = "fetch", !.code = 200,
                                  !.contentType = "text/plain; charset=utf-8",
                                  !.body = jobs[i].content]
        /\ UNCHANGED <<nextJobId, jobs, dispatched, issued>>

\* ------------------------------------------- DELETE /cloudprnt (acknowledge)
\* if (status === "0") job.status = "done"; else job.status = "error";
\* (as if written status == "0": an array holding "0" compares equal)
AckOutcomeLoose(status) ==
    IF status.t \in {"string", "array"} /\ status.v = "0" THEN "done" ELSE "error"
\* (as if an absent status defaulted to "0")
AckOutcomeDefault(status) ==
    IF StrictEq(status, "0") \/ status.t = "undefined" THEN "done" ELSE "error"
\* (as if the two branches were swapped)
AckOutcomeInverted(status) == IF StrictEq(status, "0") THEN "error" ELSE "done"
AckOutcome(status) == IF StrictEq(status, "0") THEN "done" ELSE "error"

\* job.status = "done" / job.status = "error": assigned whatever the job's
\* current status is.
\* (as if a job already done or error were left alone)
SetTerminalOnce(js, i, status) ==
    IF js[i].status \in {"done", "error"} THEN js
    ELSE [js EXCEPT ![i].status = AckOutcome(status)]
\* (as if a second failure report put the job back in the queue for a retry)
SetTerminalRetry(js, i, status) ==
    IF js[i].status = "error" /\ AckOutcome(status) = "error"
    THEN [js EXCEPT ![i].status = "pending"]
    ELSE [js EXCEPT ![i].status = AckOutcome(status)]
\* (as if an acknowledged job were removed from the queue)
SetTerminalAndRemove(js, i, status) ==
    [k \in 1..(Len(js) - 1) |-> IF k < i THEN js[k] ELSE js[k + 1]]
SetTerminal(js, i, status) == [js EXCEPT ![i].status = AckOutcome(status)]

DeleteCloudprnt ==
    \E token \in TokenParams, status \in StatusParams :
        /\ req' = [NoReq EXCEPT !.op = "ack", !.job_token = token,
                                !.status = status]
        /\ IF MissingToken(token)
           THEN /\ res' = [NoRes EXCEPT !.op = "ack", !.code = 400,
                                        !.body = "Missing job_token"]
                /\ UNCHANGED jobs
           ELSE LET i == FindByToken(jobs, token)
                IN IF i = 0
                   THEN /\ res' = [NoRes EXCEPT !.op = "ack", !.code = 404,
                                                !.body = "Job not found"]
                        /\ UNCHANGED jobs
                   ELSE /\ jobs' = SetTerminal(jobs, i, status)
                        /\ res' = [NoRes EXCEPT !.op = "ack", !.code = 200,
                                                !.body = "OK"]
        /\ UNCHANGED <<nextJobId, dispatched, issued>>

\* ------------------------------------------------------------- GET / (root)
GetRoot ==
    /\ req' = [NoReq EXCEPT !.op = "root"]
    /\ res' = [NoRes EXCEPT !.op = "root", !.code = 200,
                            !.body = "Aldo's CloudPRNT server is running."]
    /\ UNCHANGED <<nextJobId, jobs, dispatched, issued>>

Next ==
    \/ PostApiOrder
    \/ GetDebugJobs
    \/ PostCloudprnt
    \/ GetCloudprnt
    \/ DeleteCloudprnt
    \/ GetRoot

Spec == Init /\ [][Next]_vars

\* The printer keeps polling: a poll request is always possible, and under
\* weak fairness polls keep being handled.
FairSpec == Spec /\ WF_vars(PostCloudprnt)

\* ================================================================ properties
Statuses == {"pending", "printing", "done", "error"}
Terminal == {"done", "error"}
PendingCount(js) == Cardinality({i \in 1..Len(js) : js[i].status = "pending"})
\* The request carries a job_token naming a job of the store.
KnownToken(r, js) ==
    r.job_token.t = "string" /\ \E i \in 1..Len(js) : js[i].token = r.job_token.v
JobsWithToken(js, tok) == {i \in 1..Len(js) : js[i].token = tok}
StatusUnchanged == \A i \in 1..Len(jobs) : jobs'[i].status = jobs[i].status

TypeOK ==
    /\ nextJobId \in 1..(MaxJobs + 1)
    /\ \A i \in 1..Len(jobs) : jobs[i].status \in Statuses
    /\ Len(jobs) <= MaxJobs

\* ---- C1 -----------------------------------------------------------------
\* C1: no double dispatch.  No job token is returned by two jobReady: 1 poll
\* responses; and of the polls handled against a store with exactly one
\* pending job, the first answers jobReady: 1 and leaves nothing pending, so
\* every further poll (handled with nothing pending) answers jobReady: 0.
DispatchedOnce ==
    \A a, b \in 1..Len(dispatched) : a # b => dispatched[a] # dispatched[b]
PollClaims ==
    req'.op = "poll" =>
        /\ PendingCount(jobs) = 1 => res'.jobReady = 1 /\ PendingCount(jobs') = 0
        /\ PendingCount(jobs) = 0 => res'.jobReady = 0 /\ dispatched' = dispatched
NoDoubleDispatch == []DispatchedOnce /\ [][PollClaims]_vars
\* One job, dispatched once, and a later poll was answered jobReady: 0.
NoDoubleDispatchWitness ==
    /\ Len(jobs) = 1
    /\ dispatched = <<jobs[1].token>>
    /\ res.op = "poll" /\ res.jobReady = 0

\* ---- C2 -----------------------------------------------------------------
\* C2: dispatch is FIFO.  A poll answering jobReady: 1 returns the token of
\* the pending job with the smallest id, and the tokens handed out so far
\* appear in the order in which their jobs were submitted.
PollTakesOldest ==
    req'.op = "poll" /\ res'.jobReady = 1 =>
        \E i \in 1..Len(jobs) :
            /\ jobs[i].status = "pending"
            /\ res'.token = jobs[i].token
            /\ \A k \in 1..Len(jobs) :
                   jobs[k].status = "pending" => jobs[i].id <= jobs[k].id
DispatchedInSubmitOrder ==
    \A a, b \in 1..Len(dispatched) :
        a < b => \A i \in JobsWithToken(jobs, dispatched[a]),
                    k \in JobsWithToken(jobs, dispatched[b]) : i < k
FifoDispatch == []DispatchedInSubmitOrder /\ [][PollTakesOldest]_vars
\* The last request was a poll handled with two jobs in the store; it took
\* the older one and left the younger pending.
FifoDispatchWitness ==
    /\ Len(jobs) = 2
    /\ res.op = "poll" /\ res.jobReady = 1 /\ res.token = jobs[1].token
    /\ jobs[1].status = "printing" /\ jobs[2].status = "pending"

\* ---- C3 -----------------------------------------------------------------
\* C3: every status change of a job is pending -> printing made by a poll,
\* or printing -> done / printing -> error made by an acknowledge.
LifecycleStep(i) ==
    \/ jobs'[i].status = jobs[i].status
    \/ jobs[i].status = "pending" /\ jobs'[i].status = "printing" /\ req'.op = "poll"
    \/ jobs[i].status = "printing" /\ jobs'[i].status \in Terminal /\ req'.op = "ack"
LifecycleOnly == [][\A i \in 1..Len(jobs) : LifecycleStep(i)]_vars

\* ---- C4 -----------------------------------------------------------------
\* C4: once a job is done or error, no later request changes its status.
TerminalKept == \A i \in 1..Len(jobs) :
    jobs[i].status \in Terminal => jobs'[i].status = jobs[i].status
TerminalStable == [][TerminalKept]_vars

\* ---- C5 -----------------------------------------------------------------
\* C5: after an acknowledge carrying the token of a known job the response
\* is 200 "OK" and the job is done exactly when the status parameter is the
\* string "0", and error for every other status value.
AckRecordsOutcome ==
    res.op = "ack" /\ KnownToken(req, jobs) =>
        /\ res.code = 200 /\ res.body = "OK"
        /\ \A i \in JobsWithToken(jobs, req.job_token.v) :
               /\ jobs[i].status \in Terminal
               /\ jobs[i].status = "done" <=>
                      (req.status.t = "string" /\ req.status.v = "0")
\* An acknowledge whose status is not the string "0" (here the repeated
\* parameter status=0&status=0, an array) has recorded error.
AckRecordsOutcomeWitness ==
    /\ res.op = "ack" /\ res.code = 200 /\ KnownToken(req, jobs)
    /\ req.status.t = "array"
    /\ \E i \in JobsWithToken(jobs, req.job_token.v) : jobs[i].status = "error"

\* ---- C6 -----------------------------------------------------------------
\* C6: a fetch with the token a successful submit returned answers 200 with
\* exactly the text given to that submit, whatever the job's status; a fetch
\* with a (non-empty) token no submit returned answers 404.
IssuedWithToken(r) ==
    {k \in 1..Len(issued) : r.job_token.t = "string" /\ issued[k].token = r.job_token.v}
IdsAndTokensUnique ==
    /\ \A a, b \in 1..Len(issued) :
           a < b => issued[a].id < issued[b].id /\ issued[a].token # issued[b].token
    /\ \A i, k \in 1..Len(jobs) : i # k => jobs[i].token # jobs[k].token
    /\ \A i \in 1..Len(jobs) : Cardinality(JobsWithToken(jobs, jobs[i].token)) = 1
\* Two jobs created in the same clock tick, with a rejected submit last.
IdsAndTokensUniqueWitness ==
    /\ Len(issued) = 2
    /\ issued[1].token = makeToken(1, 1) /\ issued[2].token = makeToken(2, 1)
    /\ res.op = "submit" /\ res.code = 400

\* ---- C8 -----------------------------------------------------------------
\* C8: a submit whose text is missing, empty or not a string answers 400
\* with an error message and leaves the job collection and the id counter
\* as they were.
RejectedSubmit ==
    req'.op = "submit" /\ (req'.text.t # "string" \/ req'.text.v = "") =>
        /\ res'.code = 400 /\ res'.body # "" /\ ~res'.ok
        /\ jobs' = jobs
        /\ nextJobId' = nextJobId
RejectedSubmitInert == [][RejectedSubmit]_vars
\* A non-string text was rejected between two successful submits, and the
\* ids on either side of it are consecutive.
RejectedSubmitInertWitness ==
    /\ res.op = "submit" /\ res.code = 400 /\ req.text.t = "number"
    /\ Len(jobs) = 1 /\ nextJobId = 2

\* ---- C9 -----------------------------------------------------------------
\* C9: a fetch or an acknowledge without a job_token parameter answers 400
\* and changes no job status and not the id counter, whatever status
\* parameter it carries.
MissingTokenStep ==
    req'.op \in {"fetch", "ack"} /\ req'.job_token.t = "undefined" =>
        /\ res'.code = 400
        /\ Len(jobs') = Len(jobs) /\ StatusUnchanged
        /\ nextJobId' = nextJobId
MissingTokenRejected == [][MissingTokenStep]_vars
\* An acknowledge without job_token but with status "0" was answered 400
\* while a job was printing.
MissingTokenRejectedWitness ==
    /\ res.op = "ack" /\ res.code = 400
    /\ req.job_token.t = "undefined" /\ req.status = Str("0")
    /\ \E i \in 1..Len(jobs) : jobs[i].status = "printing"

\* ---- C10 ----------------------------------------------------------------
\* C10 (as claimed): an acknowledge with a known token and no status
\* parameter fails with 400 and does not change the job's status.
AckWithoutStatusStep ==
    req'.op = "ack" /\ req'.status.t = "undefined" /\ KnownToken(req', jobs) =>
        res'.code = 400 /\ StatusUnchanged
AckRequiresStatus == [][AckWithoutStatusStep]_vars
\* C10 (amended): an acknowledge with a known token and no status parameter
\* is answered 200 "OK" and the job's status becomes error.
AckWithoutStatusIsError ==
    res.op = "ack" /\ req.status.t = "undefined" /\ KnownToken(req, jobs) =>
        /\ res.code = 200 /\ res.body = "OK"
        /\ \A i \in JobsWithToken(jobs, req.job_token.v) : jobs[i].status = "error"
AckWithoutStatusIsErrorWitness ==
    /\ res.op = "ack" /\ req.status.t = "undefined" /\ KnownToken(req, jobs)
    /\ res.code = 200
    /\ \E i \in JobsWithToken(jobs, req.job_token.v) : jobs[i].status = "error"

\* ---- C11 ----------------------------------------------------------------
\* C11: a fetch or an acknowledge whose (non-empty) token matches no job
\* answers 404 and changes nothing: the jobs and the id counter stay as
\* they were.
UnknownTokenStep ==
    req'.op \in {"fetch", "ack"} /\ Truthy(req'.job_token) /\ ~KnownToken(req', jobs) =>
        /\ res'.code = 404
        /\ jobs' = jobs
        /\ nextJobId' = nextJobId
PollStep ==
    req'.op = "poll" =>
        /\ res'.jobReady = 0 <=> PendingCount(jobs) = 0
        /\ res'.jobReady \in {0, 1}
        /\ res'.jobReady = 0 => jobs' = jobs
        /\ res'.jobReady = 1 =>
               /\ res'.pollInterval = 5
               /\ Len(jobs') = Len(jobs)
               /\ \E i \in 1..Len(jobs) :
                      /\ res'.token = jobs[i].token
                      /\ jobs[i].status = "pending" /\ jobs'[i].status = "printing"
                      /\ \A k \in 1..Len(jobs) : k # i => jobs'[k] = jobs[k]
PollResponse == [][PollStep]_vars
\* A poll took one of two pending jobs and left the other pending.
PollResponseWitness ==
    /\ res.op = "poll" /\ res.jobReady = 1 /\ res.pollInterval = 5
    /\ Len(jobs) = 2 /\ PendingCount(jobs) = 1
    /\ \E i \in 1..2 : jobs[i].status = "printing" /\ res.token = jobs[i].token

\* ---- C13 ----------------------------------------------------------------
\* C13: the end-to-end scenario.  The first job gets id 1; a poll of the
\* store holding that job pending answers jobReady: 1 with the token the
\* submit returned; a fetch with the token answers the submitted text; an
\* acknowledge with status "0" answers "OK" and the job is done; a poll of
\* the store holding only that done job answers jobReady: 0.
OneJob(st) == Len(jobs) = 1 /\ Len(issued) = 1 /\ jobs[1].status = st
ScenarioStep ==
    /\ req'.op = "submit" /\ jobs = <<>> /\ res'.code = 200 =>
           /\ res'.id = 1 /\ res'.token # ""
           /\ Len(jobs') = 1 /\ jobs'[1].status = "pending"
           /\ jobs'[1].token = res'.token
    /\ req'.op = "poll" /\ OneJob("pending") =>
           /\ res'.jobReady = 1 /\ res'.token = issued[1].token
           /\ res'.pollInterval = 5 /\ res'.mediaTypes = <<"text/plain">>
    /\ req'.op = "fetch" /\ OneJob("printing") /\ req'.job_token = Str(issued[1].token) =>
           res'.code = 200 /\ res'.body = issued[1].text
    /\ req'.op = "ack" /\ OneJob("printing") /\ req'.job_token = Str(issued[1].token)
           /\ req'.status = Str("0") =>
           res'.code = 200 /\ res'.body = "OK" /\ jobs'[1].status = "done"
    /\ req'.op = "poll" /\ OneJob("done") =>
           res'.jobReady = 0 /\ res'.mediaTypes = <<"text/plain">> /\ jobs' = jobs
EndToEnd == [][ScenarioStep]_vars
\* The scenario has run to its end: one job, dispatched once, done, and the
\* last poll was answered jobReady: 0.
EndToEndWitness ==
    /\ Len(jobs) = 1 /\ jobs[1].id = 1 /\ jobs[1].status = "done"
    /\ jobs[1].content = "Order #1"
    /\ dispatched = <<jobs[1].token>>
    /\ res.op = "poll" /\ res.jobReady = 0

\* ---- C14 ----------------------------------------------------------------
\* C14: no job moves to an earlier lifecycle state: a job that is not
\* pending is not pending in the next state, and a job that is done or
\* error is neither printing nor pending in the next state.
NoStepBack ==
    \A i \in 1..Len(jobs) :
        /\ Len(jobs') >= i
        /\ jobs[i].status # "pending" => jobs'[i].status # "pending"
        /\ jobs[i].status \in Terminal => jobs'[i].status \in Terminal
NeverBackwards == [][NoStepBack]_vars
\* A job recorded as error while another is pending, and a poll has since
\* been handled: the failed job was not offered again.
NeverBackwardsWitness ==
    /\ Len(jobs) = 2
    /\ jobs[1].status = "error" /\ jobs[2].status = "printing"
    /\ res.op = "poll" /\ res.token = jobs[2].token

\* ---- C15 ----------------------------------------------------------------
\* C15: frame conditions.  No step changes the id, token or content of an
\* existing job; a successful submit appends one pending job and advances
\* the id counter and changes nothing else, every other request leaves the
\* collection's length and the counter alone; a fetch changes nothing; a
\* status is one of the four values and changes only in a poll or an
\* acknowledge.
FrameStep ==
    /\ \A i \in 1..Len(jobs) :
           /\ Len(jobs') >= i
           /\ jobs'[i].id = jobs[i].id
           /\ jobs'[i].token = jobs[i].token
           /\ jobs'[i].content = jobs[i].content
           /\ jobs'[i].status # jobs[i].status => req'.op \in {"poll", "ack"}
    /\ \A i \in 1..Len(jobs') : jobs'[i].status \in Statuses
    /\ IF req'.op = "submit" /\ res'.code = 200
       THEN /\ Len(jobs') = Len(jobs) + 1
            /\ jobs'[Len(jobs')].status = "pending"
            /\ nextJobId' = nextJobId + 1
            /\ StatusUnchanged
       ELSE Len(jobs') = Len(jobs) /\ nextJobId' = nextJobId
    /\ req'.op = "fetch" => jobs' = jobs /\ nextJobId' = nextJobId
FrameConditions == [][FrameStep]_vars
\* Two jobs with their submitted texts, both past pending, after a fetch.
FrameConditionsWitness ==
    /\ Len(jobs) = 2 /\ res.op = "fetch" /\ res.code = 200
    /\ jobs[1].status = "done" /\ jobs[2].status = "printing"
    /\ jobs[1].content = issued[1].text /\ jobs[2].content = issued[2].text

\* ---- C16 ----------------------------------------------------------------
\* C16: an acknowledge for a job that is already done or error is answered
\* 200 "OK" and overwrites the stored status with the outcome of its own
\* status code, so the status is that of the last acknowledge alone.
ReAckStep ==
    req'.op = "ack" /\ KnownToken(req', jobs) =>
        \A i \in JobsWithToken(jobs, req'.job_token.v) :
            jobs[i].status \in Terminal =>
                /\ res'.code = 200 /\ res'.body = "OK"
                /\ jobs'[i].status =
                       IF req'.status.t = "string" /\ req'.status.v = "0"
                       THEN "done" ELSE "error"
ReAckOverwrites == [][ReAckStep]_vars
\* A job is done, and the acknowledge with status "1" for it is answered
\* 200 and turns it to error.
ReAckOverwritesWitness ==
    \E i \in 1..Len(jobs) :
        /\ jobs[i].status = "done"
        /\ ENABLED (/\ DeleteCloudprnt
                    /\ req'.job_token = Str(jobs[i].token)
                    /\ req'.status = Str("1")
                    /\ res'.code = 200
                    /\ jobs'[i].status = "error")

\* ---- C17 ----------------------------------------------------------------
\* C17: the poll outcome does not depend on the device status payload: the
\* response and the store a poll leaves are the ones the handler gives, from
\* the same store, for every other body the printer could have sent.
PollIgnoresBody ==
    req'.op = "poll" =>
        \A other \in PrinterStatuses :
            /\ PollOutcome(jobs, other).res = res'
            /\ PollOutcome(jobs, other).jobs = jobs'
PollIndependentOfStatus == [][PollIgnoresBody]_vars
\* A printer reporting paper-out was handed a job.
PollIndependentOfStatusWitness ==
    /\ res.op = "poll" /\ req.body = "paper-out" /\ res.jobReady = 1
    /\ \E i \in 1..Len(jobs) : jobs[i].token = res.token /\ jobs[i].status = "printing"

\* ---- C18 ----------------------------------------------------------------
\* C18: jobs are never removed and ids are dense: the collection holds, in
\* insertion order, the ids 1, 2, ..., n, the id counter is n + 1, and the
\* number of jobs never decreases.
DenseIds ==
    /\ \A i \in 1..Len(jobs) : jobs[i].id = i
    /\ nextJobId = Len(jobs) + 1
NeverShrinks == Len(jobs') >= Len(jobs)
JobsKeptAndDense == []DenseIds /\ [][NeverShrinks]_vars
\* Two jobs, both acknowledged, are still in the collection.
JobsKeptAndDenseWitness ==
    /\ Len(jobs) = 2 /\ nextJobId = 3
    /\ jobs[1].status = "done" /\ jobs[2].status = "error"

\* ---- C19 ----------------------------------------------------------------
\* C19: no starvation.  With weak fairness on poll, every job that is
\* pending eventually is not pending, whatever is submitted after it.
NoStarvation ==
    \A i \in 1..MaxJobs :
        (Len(jobs) >= i /\ jobs[i].status = "pending")
            ~> (Len(jobs) >= i /\ jobs[i].status # "pending")
\* A job submitted behind another one has been handed out by a poll.
NoStarvationWitness ==
    /\ Len(jobs) = 2
    /\ dispatched = <<jobs[1].token, jobs[2].token>>
    /\ res.op = "poll" /\ res.token = jobs[2].token
    /\ jobs[2].status = "printing"

\* ---- C20 ----------------------------------------------------------------
\* C20: acknowledge is idempotent: handling the acknowledge request that
\* was handled last once more gives the same response and leaves the store
\* as the first handling left it.
RepeatedAckStep ==
    req'.op = "ack" /\ req' = req =>
        res' = res /\ jobs' = jobs /\ nextJobId' = nextJobId
AckIdempotent == [][RepeatedAckStep]_vars
\* A failure report for a known job was handled, and handling it again is
\* possible and changes nothing.
AckIdempotentWitness ==
    /\ res.op = "ack" /\ res.code = 200 /\ req.status = Str("1")
    /\ KnownToken(req, jobs)
    /\ ENABLED (DeleteCloudprnt /\ req' = req /\ res' = res /\ jobs' = jobs)

====
